---- MODULE Spec2Model ----
(***************************************************************************)
(* Model of keras_transformer/transformer.py: the assembly of the          *)
(* encoder/decoder Transformer graph by get_model.                         *)
(*                                                                         *)
(* The graph under construction is kept as Keras keeps it: `layers` are    *)
(* the layer objects in creation order (each with its name and keyword     *)
(* arguments), `nodes` are the layer calls in call order.  A tensor is     *)
(* the index of the node that produced it; 0 stands for an unassigned      *)
(* local.  One action is one layer construction and/or call, or one        *)
(* call/return step of the Python control flow.                            *)
(***************************************************************************)
EXTENDS Integers, Sequences, FiniteSets, TLC

VARIABLES cfg, layers, nodes, pc, gm, st, comp, wr, ret, blocks, model

vars == <<cfg, layers, nodes, pc, gm, st, comp, wr, ret, blocks, model>>

(* ------------------------------ bounds -------------------------------- *)
MaxEncoderNum == 2
MaxDecoderNum == 2

(* dropout_rate in units of 0.1: negative, zero, and two positive rates *)
DropoutRates == {-1, 0, 1, 5}

(* ------------------------- Python values ------------------------------ *)
PyNone == [tag |-> "None", data |-> <<>>]
PyArray(a) == [tag |-> "ndarray", data |-> <<a>>]
PyList(s) == [tag |-> "list", data |-> s]

EmbedWeightsInputs == {PyNone, PyArray("W"), PyList(<<"W">>), PyList(<<>>)}
EmbedTrainableInputs == {"None", "True", "False"}

PyBool(b) == IF b THEN "True" ELSE "False"

(* a single tensor, or a Python list of tensors, passed as input_layer *)
Tensor(t) == [isList |-> FALSE, items |-> <<t>>]
TensorList(s) == [isList |-> TRUE, items |-> s]

(* the tensors a layer call records as its inbound tensors *)
InboundTensors(x) == x.items

(* ------------------------------ names --------------------------------- *)
(* mutants of BlockName: the index dropped from the name; the index written
   without the + 1 *)
BlockNameNoIndex(role, i) == role \o "-" \o ToString(1)
BlockNameZeroBased(role, i) == role \o "-" \o ToString(i)

(* 'Encoder-%d' % (i + 1), 'Decoder-%d' % (i + 1) *)
BlockName(role, i) == role \o "-" \o ToString(i + 1)

SelfAttentionName(name) == name \o "-MultiHeadSelfAttention"
QueryAttentionName(name) == name \o "-MultiHeadQueryAttention"
FeedForwardName(name) == name \o "-FeedForward"
NormName(name) == name \o "-Norm"
DropoutName(name) == name \o "-Dropout"
AddName(name) == name \o "-Add"

(* --------------------------- builders --------------------------------- *)
_attention_builder(name, head_num, activation, history_only) ==
    [fn |-> "attention", name |-> name, head_num |-> head_num,
     activation |-> activation, history_only |-> history_only]

_feed_forward_builder(name, hidden_dim, activation) ==
    [fn |-> "feed_forward", name |-> name, hidden_dim |-> hidden_dim,
     activation |-> activation]

(* the layer object the closure constructs when it is invoked *)
BuildLayer(bf) ==
    IF bf.fn = "attention"
    THEN [kind |-> "MultiHeadAttention", name |-> bf.name, head_num |-> bf.head_num,
          activation |-> bf.activation, history_only |-> bf.history_only]
    ELSE [kind |-> "FeedForward", name |-> bf.name, units |-> bf.hidden_dim,
          activation |-> bf.activation]

(* mutant of DecoderSelfHistoryOnly: the decoder's self-attention unmasked *)
DecoderSelfHistoryOnlyOff == FALSE

(* history_only of the three attention call sites *)
EncoderSelfHistoryOnly == FALSE
DecoderSelfHistoryOnly == TRUE
DecoderQueryHistoryOnly == FALSE

(* ---------------------------- _wrap_layer ----------------------------- *)
(* mutant of UseDropout: a rate of exactly 0 also gets a Dropout layer *)
UseDropoutNonNegative(dropout_rate) == dropout_rate >= 0

(* if dropout_rate > 0.0 *)
UseDropout(dropout_rate) == dropout_rate > 0

(* if isinstance(input_layer, list): input_layer = input_layer[0] *)
TensorOf(x) == x.items[1]

(* mutant of ResidualInput: the last element of a list input as the skip *)
ResidualInputLast(input_layer) == input_layer.items[Len(input_layer.items)]

ResidualInput(input_layer) ==
    IF input_layer.isList THEN Head(input_layer.items) ELSE TensorOf(input_layer)

(* [input_layer, dropout_layer] *)
AddInputs(skip, dropout_layer) == <<skip, dropout_layer>>

(* mutants of QueryAttentionInput: the key taken from the decoder path; the
   encoder output not used at all *)
QueryAttentionInputDecoderKey(self_attention_layer, encoded_layer) ==
    TensorList(<<self_attention_layer, self_attention_layer, encoded_layer>>)
QueryAttentionInputSelfOnly(self_attention_layer, encoded_layer) ==
    TensorList(<<self_attention_layer, self_attention_layer, self_attention_layer>>)

(* [self_attention_layer, encoded_layer, encoded_layer] *)
QueryAttentionInput(self_attention_layer, encoded_layer) ==
    TensorList(<<self_attention_layer, encoded_layer, encoded_layer>>)

(* ----------------------------- get_model ------------------------------ *)
(* mutant of NormalizeWeights: the "is not None" guard missing, so None is
   wrapped in a list too *)
NormalizeWeightsUnguarded(embed_weights) ==
    IF embed_weights.tag # "list" THEN PyList(embed_weights.data) ELSE embed_weights

(* if embed_weights is not None: if not isinstance(embed_weights, list): wrap *)
NormalizeWeights(embed_weights) ==
    IF embed_weights.tag # "None"
    THEN IF embed_weights.tag # "list" THEN PyList(embed_weights.data) ELSE embed_weights
    ELSE embed_weights

(* if embed_trainable is None: embed_trainable = embed_weights is None *)
InferTrainable(embed_weights, embed_trainable) ==
    IF embed_trainable = "None"
    THEN PyBool(embed_weights.tag = "None")
    ELSE embed_trainable

(* ------------------------------ frames -------------------------------- *)
NoFrame == [fn |-> "none"]

GmInit ==
    [embed_weights |-> PyNone, embed_trainable |-> "None", embed_layer |-> 0,
     encoder_input |-> 0, encoder_embed |-> 0, encoded_layer |-> 0,
     decoder_input |-> 0, decoder_embed |-> 0, decoded_layer |-> 0,
     dense_layer |-> 0]

Init ==
    /\ cfg \in [token_num : {1000}, embed_dim : {16},
                encoder_num : 0..MaxEncoderNum, decoder_num : 0..MaxDecoderNum,
                head_num : {4}, hidden_dim : {32}, activation : {"relu"},
                dropout_rate : DropoutRates,
                embed_weights : EmbedWeightsInputs,
                embed_trainable : EmbedTrainableInputs]
    /\ layers = <<>>
    /\ nodes = <<>>
    /\ pc = "get_model"
    /\ gm = GmInit
    /\ st = NoFrame
    /\ comp = NoFrame
    /\ wr = NoFrame
    /\ ret = 0
    /\ blocks = <<>>
    /\ model = [built |-> FALSE, inputs |-> <<>>, outputs |-> <<>>]

(* constructing a layer object, and calling a layer on its input *)
NewLayer(l) == layers' = Append(layers, l)
NewNode(layerIdx, x) == nodes' = Append(nodes, [layer |-> layerIdx, inputs |-> InboundTensors(x)])
NewTensor == Len(nodes) + 1

(* construct layer l and call it on x *)
Apply(l, x) == NewLayer(l) /\ NewNode(Len(layers) + 1, x)

(* ======================= get_model, lines 239-283 ===================== *)

(* lines 239-250: normalise embed_weights, infer embed_trainable, construct
   the Embedding layer object (not yet called) *)
GetModelEmbedLayer ==
    /\ pc = "get_model"
    /\ LET w == NormalizeWeights(cfg.embed_weights)
           t == InferTrainable(w, cfg.embed_trainable)
       IN /\ NewLayer([kind |-> "Embedding", name |-> "Token-Embedding",
                       input_dim |-> cfg.token_num, output_dim |-> cfg.embed_dim,
                       weights |-> w, trainable |-> t])
          /\ gm' = [gm EXCEPT !.embed_weights = w, !.embed_trainable = t,
                              !.embed_layer = Len(layers) + 1]
    /\ pc' = "encoder_input"
    /\ UNCHANGED <<cfg, nodes, st, comp, wr, ret, blocks, model>>

(* line 251 *)
GetModelEncoderInput ==
    /\ pc = "encoder_input"
    /\ Apply([kind |-> "Input", name |-> "Encoder-Input"], TensorList(<<>>))
    /\ gm' = [gm EXCEPT !.encoder_input = NewTensor]
    /\ pc' = "encoder_token_embed"
    /\ UNCHANGED <<cfg, st, comp, wr, ret, blocks, model>>

(* lines 252-255, in Python's evaluation order: the TrigPosEmbedding layer
   object is constructed, then its argument embed_layer(encoder_input) is
   evaluated, which calls the shared embedding layer *)
GetModelEncoderTokenEmbed ==
    /\ pc = "encoder_token_embed"
    /\ NewLayer([kind |-> "TrigPosEmbedding", name |-> "Encoder-Embedding", mode |-> "add"])
    /\ NewNode(gm.embed_layer, Tensor(gm.encoder_input))
    /\ ret' = NewTensor
    /\ pc' = "encoder_pos_embed"
    /\ UNCHANGED <<cfg, gm, st, comp, wr, blocks, model>>

(* lines 252-255: the positional embedding layer is called on the result *)
GetModelEncoderPosEmbed ==
    /\ pc = "encoder_pos_embed"
    /\ NewNode(Len(layers), Tensor(ret))
    /\ gm' = [gm EXCEPT !.encoder_embed = NewTensor]
    /\ ret' = 0
    /\ pc' = "call_get_encoders"
    /\ UNCHANGED <<cfg, layers, st, comp, wr, blocks, model>>

(* lines 256-263 and 175: enter get_encoders, last_layer = input_layer *)
CallGetEncoders ==
    /\ pc = "call_get_encoders"
    /\ st' = [fn |-> "get_encoders", encoder_num |-> cfg.encoder_num,
              input_layer |-> gm.encoder_embed, head_num |-> cfg.head_num,
              hidden_dim |-> cfg.hidden_dim, activation |-> cfg.activation,
              dropout_rate |-> cfg.dropout_rate, i |-> 0,
              last_layer |-> gm.encoder_embed]
    /\ pc' = "get_encoders_loop"
    /\ UNCHANGED <<cfg, layers, nodes, gm, comp, wr, ret, blocks, model>>

(* lines 176-184: one iteration enters _get_encoder_component *)
GetEncodersIterate ==
    /\ pc = "get_encoders_loop"
    /\ st.i < st.encoder_num
    /\ comp' = [fn |-> "_get_encoder_component", name |-> BlockName("Encoder", st.i),
                input_layer |-> st.last_layer, head_num |-> st.head_num,
                hidden_dim |-> st.hidden_dim, activation |-> st.activation,
                dropout_rate |-> st.dropout_rate, attention_layer |-> 0]
    /\ blocks' = Append(blocks, [fn |-> "_get_encoder_component",
                                 name |-> BlockName("Encoder", st.i),
                                 input_layer |-> st.last_layer, encoded_layer |-> 0,
                                 output |-> 0])
    /\ pc' = "encoder_attention"
    /\ UNCHANGED <<cfg, layers, nodes, gm, st, wr, ret, model>>

(* lines 176, 185 and 256: range exhausted, return last_layer to get_model *)
GetEncodersReturn ==
    /\ pc = "get_encoders_loop"
    /\ ~(st.i < st.encoder_num)
    /\ gm' = [gm EXCEPT !.encoded_layer = st.last_layer]
    /\ st' = NoFrame
    /\ pc' = "decoder_input"
    /\ UNCHANGED <<cfg, layers, nodes, comp, wr, ret, blocks, model>>

(* lines 88-100: enter _wrap_layer for the encoder self-attention stage *)
EncoderAttentionStage ==
    /\ pc = "encoder_attention"
    /\ wr' = [fn |-> "_wrap_layer", name |-> SelfAttentionName(comp.name),
              input_layer |-> Tensor(comp.input_layer),
              build_func |-> _attention_builder(SelfAttentionName(comp.name),
                                 comp.head_num, comp.activation, EncoderSelfHistoryOnly),
              dropout_rate |-> comp.dropout_rate,
              build_output |-> 0, normal_layer |-> 0, dropout_layer |-> 0,
              cont |-> "encoder_feed_forward"]
    /\ pc' = "wrap_build"
    /\ UNCHANGED <<cfg, layers, nodes, gm, st, comp, ret, blocks, model>>

(* lines 101-110: attention_layer = result; enter _wrap_layer for feed-forward *)
EncoderFeedForwardStage ==
    /\ pc = "encoder_feed_forward"
    /\ comp' = [comp EXCEPT !.attention_layer = ret]
    /\ wr' = [fn |-> "_wrap_layer", name |-> FeedForwardName(comp.name),
              input_layer |-> Tensor(ret),
              build_func |-> _feed_forward_builder(FeedForwardName(comp.name),
                                 comp.hidden_dim, comp.activation),
              dropout_rate |-> comp.dropout_rate,
              build_output |-> 0, normal_layer |-> 0, dropout_layer |-> 0,
              cont |-> "encoder_component_return"]
    /\ ret' = 0
    /\ pc' = "wrap_build"
    /\ UNCHANGED <<cfg, layers, nodes, gm, st, blocks, model>>

(* mutant of EncoderComponentReturn: the block's result is dropped, so the
   next block is fed the stack's input again *)
EncoderComponentReturnUnthreaded ==
    /\ pc = "encoder_component_return"
    /\ st' = [st EXCEPT !.i = st.i + 1]
    /\ blocks' = [blocks EXCEPT ![Len(blocks)].output = ret]
    /\ comp' = NoFrame
    /\ ret' = 0
    /\ pc' = "get_encoders_loop"
    /\ UNCHANGED <<cfg, layers, nodes, gm, wr, model>>

(* lines 111 and 177: return feed_forward_layer; last_layer = it; next i *)
EncoderComponentReturn ==
    /\ pc = "encoder_component_return"
    /\ st' = [st EXCEPT !.last_layer = ret, !.i = st.i + 1]
    /\ blocks' = [blocks EXCEPT ![Len(blocks)].output = ret]
    /\ comp' = NoFrame
    /\ ret' = 0
    /\ pc' = "get_encoders_loop"
    /\ UNCHANGED <<cfg, layers, nodes, gm, wr, model>>

(* ====================== _wrap_layer, lines 26-38 ====================== *)

(* line 26 (with 50-56 or 68-73): build_output = build_func(input_layer) *)
WrapBuild ==
    /\ pc = "wrap_build"
    /\ Apply(BuildLayer(wr.build_func), wr.input_layer)
    /\ wr' = [wr EXCEPT !.build_output = NewTensor]
    /\ pc' = "wrap_norm"
    /\ UNCHANGED <<cfg, gm, st, comp, ret, blocks, model>>

(* line 27 *)
WrapNorm ==
    /\ pc = "wrap_norm"
    /\ Apply([kind |-> "LayerNormalization", name |-> NormName(wr.name)],
             Tensor(wr.build_output))
    /\ wr' = [wr EXCEPT !.normal_layer = NewTensor]
    /\ pc' = "wrap_dropout"
    /\ UNCHANGED <<cfg, gm, st, comp, ret, blocks, model>>

(* lines 28-32: the dropout branch *)
WrapDropout ==
    /\ pc = "wrap_dropout"
    /\ UseDropout(wr.dropout_rate)
    /\ Apply([kind |-> "Dropout", name |-> DropoutName(wr.name), rate |-> wr.dropout_rate],
             Tensor(wr.normal_layer))
    /\ wr' = [wr EXCEPT !.dropout_layer = NewTensor]
    /\ pc' = "wrap_add"
    /\ UNCHANGED <<cfg, gm, st, comp, ret, blocks, model>>

(* lines 28, 33-34: dropout_layer = normal_layer *)
WrapNoDropout ==
    /\ pc = "wrap_dropout"
    /\ ~UseDropout(wr.dropout_rate)
    /\ wr' = [wr EXCEPT !.dropout_layer = wr.normal_layer]
    /\ pc' = "wrap_add"
    /\ UNCHANGED <<cfg, layers, nodes, gm, st, comp, ret, blocks, model>>

(* lines 35-38: residual add, return output_layer to the caller *)
WrapAdd ==
    /\ pc = "wrap_add"
    /\ Apply([kind |-> "Add", name |-> AddName(wr.name)],
             TensorList(AddInputs(ResidualInput(wr.input_layer), wr.dropout_layer)))
    /\ ret' = NewTensor
    /\ pc' = wr.cont
    /\ wr' = NoFrame
    /\ UNCHANGED <<cfg, gm, st, comp, blocks, model>>

(* ================= decoder side of get_model, 264-283 ================= *)

(* line 264 *)
GetModelDecoderInput ==
    /\ pc = "decoder_input"
    /\ Apply([kind |-> "Input", name |-> "Decoder-Input"], TensorList(<<>>))
    /\ gm' = [gm EXCEPT !.decoder_input = NewTensor]
    /\ pc' = "decoder_token_embed"
    /\ UNCHANGED <<cfg, st, comp, wr, ret, blocks, model>>

(* mutant of GetModelDecoderTokenEmbed: the decoder input gets an embedding
   table of its own *)
GetModelDecoderOwnEmbed ==
    /\ pc = "decoder_token_embed"
    /\ layers' = layers \o <<[kind |-> "Embedding", name |-> "Decoder-Token-Embedding",
                               input_dim |-> cfg.token_num, output_dim |-> cfg.embed_dim,
                               weights |-> gm.embed_weights,
                               trainable |-> gm.embed_trainable],
                              [kind |-> "TrigPosEmbedding", name |-> "Decoder-Embedding",
                               mode |-> "add"]>>
    /\ NewNode(Len(layers) + 1, Tensor(gm.decoder_input))
    /\ ret' = NewTensor
    /\ pc' = "decoder_pos_embed"
    /\ UNCHANGED <<cfg, gm, st, comp, wr, blocks, model>>

(* lines 265-268: TrigPosEmbedding constructed, embed_layer(decoder_input) called *)
GetModelDecoderTokenEmbed ==
    /\ pc = "decoder_token_embed"
    /\ NewLayer([kind |-> "TrigPosEmbedding", name |-> "Decoder-Embedding", mode |-> "add"])
    /\ NewNode(gm.embed_layer, Tensor(gm.decoder_input))
    /\ ret' = NewTensor
    /\ pc' = "decoder_pos_embed"
    /\ UNCHANGED <<cfg, gm, st, comp, wr, blocks, model>>

(* lines 265-268: the positional embedding layer is called on the result *)
GetModelDecoderPosEmbed ==
    /\ pc = "decoder_pos_embed"
    /\ NewNode(Len(layers), Tensor(ret))
    /\ gm' = [gm EXCEPT !.decoder_embed = NewTensor]
    /\ ret' = 0
    /\ pc' = "call_get_decoders"
    /\ UNCHANGED <<cfg, layers, st, comp, wr, blocks, model>>

(* lines 269-277 and 200: enter get_decoders, last_layer = input_layer *)
CallGetDecoders ==
    /\ pc = "call_get_decoders"
    /\ st' = [fn |-> "get_decoders", decoder_num |-> cfg.decoder_num,
              input_layer |-> gm.decoder_embed, encoded_layer |-> gm.encoded_layer,
              head_num |-> cfg.head_num, hidden_dim |-> cfg.hidden_dim,
              activation |-> cfg.activation, dropout_rate |-> cfg.dropout_rate,
              i |-> 0, last_layer |-> gm.decoder_embed]
    /\ pc' = "get_decoders_loop"
    /\ UNCHANGED <<cfg, layers, nodes, gm, comp, wr, ret, blocks, model>>

(* lines 201-210: one iteration enters _get_decoder_component *)
GetDecodersIterate ==
    /\ pc = "get_decoders_loop"
    /\ st.i < st.decoder_num
    /\ comp' = [fn |-> "_get_decoder_component", name |-> BlockName("Decoder", st.i),
                input_layer |-> st.last_layer, encoded_layer |-> st.encoded_layer,
                head_num |-> st.head_num, hidden_dim |-> st.hidden_dim,
                activation |-> st.activation, dropout_rate |-> st.dropout_rate,
                self_attention_layer |-> 0, query_attention_layer |-> 0]
    /\ blocks' = Append(blocks, [fn |-> "_get_decoder_component",
                                 name |-> BlockName("Decoder", st.i),
                                 input_layer |-> st.last_layer,
                                 encoded_layer |-> st.encoded_layer, output |-> 0])
    /\ pc' = "decoder_self_attention"
    /\ UNCHANGED <<cfg, layers, nodes, gm, st, wr, ret, model>>

(* lines 201, 211 and 269: range exhausted, return last_layer to get_model *)
GetDecodersReturn ==
    /\ pc = "get_decoders_loop"
    /\ ~(st.i < st.decoder_num)
    /\ gm' = [gm EXCEPT !.decoded_layer = st.last_layer]
    /\ st' = NoFrame
    /\ pc' = "output"
    /\ UNCHANGED <<cfg, layers, nodes, comp, wr, ret, blocks, model>>

(* lines 126-139: enter _wrap_layer for the decoder self-attention stage *)
DecoderSelfAttentionStage ==
    /\ pc = "decoder_self_attention"
    /\ wr' = [fn |-> "_wrap_layer", name |-> SelfAttentionName(comp.name),
              input_layer |-> Tensor(comp.input_layer),
              build_func |-> _attention_builder(SelfAttentionName(comp.name),
                                 comp.head_num, comp.activation, DecoderSelfHistoryOnly),
              dropout_rate |-> comp.dropout_rate,
              build_output |-> 0, normal_layer |-> 0, dropout_layer |-> 0,
              cont |-> "decoder_query_attention"]
    /\ pc' = "wrap_build"
    /\ UNCHANGED <<cfg, layers, nodes, gm, st, comp, ret, blocks, model>>

(* lines 140-150: self_attention_layer = result; enter _wrap_layer for the
   encoder-decoder attention stage on the list input *)
DecoderQueryAttentionStage ==
    /\ pc = "decoder_query_attention"
    /\ comp' = [comp EXCEPT !.self_attention_layer = ret]
    /\ wr' = [fn |-> "_wrap_layer", name |-> QueryAttentionName(comp.name),
              input_layer |-> QueryAttentionInput(ret, comp.encoded_layer),
              build_func |-> _attention_builder(QueryAttentionName(comp.name),
                                 comp.head_num, comp.activation, DecoderQueryHistoryOnly),
              dropout_rate |-> comp.dropout_rate,
              build_output |-> 0, normal_layer |-> 0, dropout_layer |-> 0,
              cont |-> "decoder_feed_forward"]
    /\ ret' = 0
    /\ pc' = "wrap_build"
    /\ UNCHANGED <<cfg, layers, nodes, gm, st, blocks, model>>

(* lines 151-160: query_attention_layer = result; enter _wrap_layer for feed-forward *)
DecoderFeedForwardStage ==
    /\ pc = "decoder_feed_forward"
    /\ comp' = [comp EXCEPT !.query_attention_layer = ret]
    /\ wr' = [fn |-> "_wrap_layer", name |-> FeedForwardName(comp.name),
              input_layer |-> Tensor(ret),
              build_func |-> _feed_forward_builder(FeedForwardName(comp.name),
                                 comp.hidden_dim, comp.activation),
              dropout_rate |-> comp.dropout_rate,
              build_output |-> 0, normal_layer |-> 0, dropout_layer |-> 0,
              cont |-> "decoder_component_return"]
    /\ ret' = 0
    /\ pc' = "wrap_build"
    /\ UNCHANGED <<cfg, layers, nodes, gm, st, blocks, model>>

(* lines 161 and 202: return feed_forward_layer; last_layer = it; next i *)
DecoderComponentReturn ==
    /\ pc = "decoder_component_return"
    /\ st' = [st EXCEPT !.last_layer = ret, !.i = st.i + 1]
    /\ blocks' = [blocks EXCEPT ![Len(blocks)].output = ret]
    /\ comp' = NoFrame
    /\ ret' = 0
    /\ pc' = "get_decoders_loop"
    /\ UNCHANGED <<cfg, layers, nodes, gm, wr, model>>

(* lines 278-282 *)
GetModelOutput ==
    /\ pc = "output"
    /\ Apply([kind |-> "Dense", name |-> "Output", units |-> cfg.token_num,
              activation |-> "softmax"], Tensor(gm.decoded_layer))
    /\ gm' = [gm EXCEPT !.dense_layer = NewTensor]
    /\ pc' = "return_model"
    /\ UNCHANGED <<cfg, st, comp, wr, ret, blocks, model>>

(* line 283 *)
GetModelReturn ==
    /\ pc = "return_model"
    /\ model' = [built |-> TRUE, inputs |-> <<gm.encoder_input, gm.decoder_input>>,
                 outputs |-> <<gm.dense_layer>>]
    /\ pc' = "done"
    /\ UNCHANGED <<cfg, layers, nodes, gm, st, comp, wr, ret, blocks>>

Next ==
    \/ GetModelEmbedLayer
    \/ GetModelEncoderInput
    \/ GetModelEncoderTokenEmbed
    \/ GetModelEncoderPosEmbed
    \/ CallGetEncoders
    \/ GetEncodersIterate
    \/ GetEncodersReturn
    \/ EncoderAttentionStage
    \/ EncoderFeedForwardStage
    \/ EncoderComponentReturn
    \/ WrapBuild
    \/ WrapNorm
    \/ WrapDropout
    \/ WrapNoDropout
    \/ WrapAdd
    \/ GetModelDecoderInput
    \/ GetModelDecoderTokenEmbed
    \/ GetModelDecoderPosEmbed
    \/ CallGetDecoders
    \/ GetDecodersIterate
    \/ GetDecodersReturn
    \/ DecoderSelfAttentionStage
    \/ DecoderQueryAttentionStage
    \/ DecoderFeedForwardStage
    \/ DecoderComponentReturn
    \/ GetModelOutput
    \/ GetModelReturn

Spec == Init /\ [][Next]_vars

(* ====================================================================== *)
(* Reading the assembled graph                                            *)
(* ====================================================================== *)
Range(s) == {s[i] : i \in DOMAIN s}
NodeIds == DOMAIN nodes
NodeLayer(k) == layers[nodes[k].layer]
NodesNamed(n) == {k \in NodeIds : NodeLayer(k).name = n}
LayersNamed(n) == {k \in DOMAIN layers : layers[k].name = n}
LayersOfKind(kd) == {k \in DOMAIN layers : layers[k].kind = kd}
NodesOfKind(kd) == {k \in NodeIds : NodeLayer(k).kind = kd}
TheNode(n) == CHOOSE k \in NodesNamed(n) : TRUE
One(S) == Cardinality(S) = 1

Parents(k) == Range(nodes[k].inputs) \cap NodeIds

Closure[S \in SUBSET NodeIds] ==
    LET T == S \cup UNION {Parents(k) : k \in S}
    IN IF T = S THEN S ELSE Closure[T]

(* the strict ancestors of node k along the input edges *)
Ancestors(k) == Closure[Parents(k)]

HasSuffix(s, suf) ==
    Len(s) >= Len(suf) /\ SubSeq(s, Len(s) - Len(suf) + 1, Len(s)) = suf
StripSuffix(s, suf) == SubSeq(s, 1, Len(s) - Len(suf))

(* the names the documentation gives the blocks, written out independently
   of the code's formatting *)
RoleName(role, k) == role \o "-" \o ToString(k)
EncName(k) == RoleName("Encoder", k)
DecName(k) == RoleName("Decoder", k)

Done == pc = "done"

(* ------------------------------- C1 ----------------------------------- *)
(* repeatedly remove the nodes none of whose inputs remain: what is left
   is empty exactly when no node lies on a cycle of input edges *)
Peel[S \in SUBSET NodeIds] ==
    LET R == {k \in S : Parents(k) \cap S = {}}
    IN IF R = {} THEN S ELSE Peel[S \ R]

Acyclic == Peel[NodeIds] = {}
UniqueNames ==
    \A a, b \in DOMAIN layers : layers[a].name = layers[b].name => a = b

(* C1: at every step of the assembly the graph stays acyclic, a node is only
   ever appended (nothing is rewritten), the appended node's inputs are nodes
   that were already in the graph before it and its layer is a constructed
   layer, and no two layers carry the same name. *)
C1_GraphWellFormed ==
    [][ /\ \/ nodes' = nodes
           \/ /\ Len(nodes') = Len(nodes) + 1
              /\ SubSeq(nodes', 1, Len(nodes)) = nodes
              /\ Range(nodes'[Len(nodes')].inputs) \subseteq DOMAIN nodes
              /\ nodes'[Len(nodes')].layer \in DOMAIN layers'
        /\ Acyclic'
        /\ UniqueNames' ]_vars

C1_Witness ==
    /\ Done
    /\ cfg.encoder_num >= 2 /\ cfg.decoder_num >= 2 /\ cfg.dropout_rate > 0
    /\ Len(nodes) >= 47

(* ------------------------------- C2 ----------------------------------- *)
(* the positions of the dashes of a name, and the block namespace of a
   layer name: the text before its second dash *)
DashAt(s) == {i \in 1..Len(s) : SubSeq(s, i, i) = "-"}
Min(S) == CHOOSE x \in S : \A y \in S : x <= y
SecondDash(s) == Min(DashAt(s) \ {Min(DashAt(s))})
InBlock(s) == Cardinality(DashAt(s)) >= 2
Namespace(s) == SubSeq(s, 1, SecondDash(s) - 1)

BlockNamespaces ==
    {Namespace(layers[k].name) : k \in {j \in DOMAIN layers : InBlock(layers[j].name)}}

(* C2: the finished graph has exactly one layer 'Encoder-Input' and one
   'Decoder-Input', these are its only Input layers and the model's two
   declared inputs, exactly one layer 'Output' which is the model's only
   output, and its block namespaces are exactly 'Encoder-1'..'Encoder-N' and
   'Decoder-1'..'Decoder-M', encoder_num + decoder_num of them. *)
C2_InputsOutputBlocks ==
    Done =>
      /\ One(LayersNamed("Encoder-Input")) /\ One(NodesNamed("Encoder-Input"))
      /\ One(LayersNamed("Decoder-Input")) /\ One(NodesNamed("Decoder-Input"))
      /\ One(LayersNamed("Output")) /\ One(NodesNamed("Output"))
      /\ LayersOfKind("Input") = LayersNamed("Encoder-Input") \cup LayersNamed("Decoder-Input")
      /\ model.built
      /\ model.inputs = <<TheNode("Encoder-Input"), TheNode("Decoder-Input")>>
      /\ model.outputs = <<TheNode("Output")>>
      /\ BlockNamespaces = {EncName(k) : k \in 1..cfg.encoder_num}
                             \cup {DecName(k) : k \in 1..cfg.decoder_num}
      /\ Cardinality(BlockNamespaces) = cfg.encoder_num + cfg.decoder_num

C2_Witness == Done /\ cfg.encoder_num = 2 /\ cfg.decoder_num = 1

(* ------------------------------- C3 ----------------------------------- *)
(* the node the encoder stack hands on: the last encoder block's final Add,
   or the encoder's positional embedding when there is no encoder block *)
EncoderOutputName ==
    IF cfg.encoder_num = 0 THEN "Encoder-Embedding"
    ELSE EncName(cfg.encoder_num) \o "-FeedForward-Add"

DecoderBlockIndex(k) == cfg.encoder_num + k

(* C3: every cross-attention node 'Decoder-k-MultiHeadQueryAttention' has the
   ordered inputs [query, key, value] with key = value = the encoder stack's
   output node and query = the Add node of the same block's self-attention
   stage, which is not the block's raw input; each decoder block of the
   finished graph has exactly one such node, and no other node has three
   inputs. *)
C3_CrossAttentionWiring ==
    /\ \A k \in 1..cfg.decoder_num :
         \A x \in NodesNamed(DecName(k) \o "-MultiHeadQueryAttention") :
           /\ One(NodesNamed(EncoderOutputName))
           /\ One(NodesNamed(DecName(k) \o "-MultiHeadSelfAttention-Add"))
           /\ nodes[x].inputs = <<TheNode(DecName(k) \o "-MultiHeadSelfAttention-Add"),
                                  TheNode(EncoderOutputName),
                                  TheNode(EncoderOutputName)>>
           /\ gm.encoded_layer = TheNode(EncoderOutputName)
           /\ nodes[x].inputs[1] # blocks[DecoderBlockIndex(k)].input_layer
           /\ blocks[DecoderBlockIndex(k)].encoded_layer = TheNode(EncoderOutputName)
    /\ \A x \in NodeIds :
         Len(nodes[x].inputs) > 2 =>
           \E k \in 1..cfg.decoder_num :
             NodeLayer(x).name = DecName(k) \o "-MultiHeadQueryAttention"
    /\ Done => \A k \in 1..cfg.decoder_num :
                 One(NodesNamed(DecName(k) \o "-MultiHeadQueryAttention"))

C3_Witness ==
    /\ Done /\ cfg.decoder_num >= 2 /\ cfg.encoder_num >= 1
    /\ NodesNamed("Decoder-2-MultiHeadQueryAttention") # {}

(* ------------------------------- C4 ----------------------------------- *)
DecoderSelfAttentionNames ==
    {DecName(k) \o "-MultiHeadSelfAttention" : k \in 1..cfg.decoder_num}
EncoderSelfAttentionNames ==
    {EncName(k) \o "-MultiHeadSelfAttention" : k \in 1..cfg.encoder_num}
DecoderQueryAttentionNames ==
    {DecName(k) \o "-MultiHeadQueryAttention" : k \in 1..cfg.decoder_num}

(* C4: an attention layer has history_only = TRUE exactly when it is the
   self-attention stage of a decoder block; encoder self-attention and decoder
   cross-attention layers have history_only = FALSE; the finished graph holds
   exactly these attention layers. *)
C4_CausalMasking ==
    /\ \A a \in LayersOfKind("MultiHeadAttention") :
         /\ layers[a].name \in DecoderSelfAttentionNames \cup EncoderSelfAttentionNames
                                 \cup DecoderQueryAttentionNames
         /\ layers[a].history_only = TRUE <=> layers[a].name \in DecoderSelfAttentionNames
         /\ layers[a].name \in EncoderSelfAttentionNames \cup DecoderQueryAttentionNames
              => layers[a].history_only = FALSE
    /\ Done => {layers[a].name : a \in LayersOfKind("MultiHeadAttention")}
                 = DecoderSelfAttentionNames \cup EncoderSelfAttentionNames
                     \cup DecoderQueryAttentionNames

C4_Witness ==
    /\ Done /\ cfg.encoder_num >= 1 /\ cfg.decoder_num >= 1
    /\ \E a \in LayersOfKind("MultiHeadAttention") : layers[a].history_only
    /\ \E a \in LayersOfKind("MultiHeadAttention") : ~layers[a].history_only

(* ------------------------------- C5 ----------------------------------- *)
(* the stage an Add, Norm or Dropout layer belongs to *)
StageOfAdd(a) == StripSuffix(NodeLayer(a).name, "-Add")

(* C5: with dropout_rate = 0, every Add node of a residual-wrapped stage has
   exactly two inputs, the stage's normalization node (whose only input is the
   stage's transform node) and the skip node, which is the first inbound
   tensor of the transform (its only one for a single input, the query for a
   list input); the further elements of a list input are not inputs of the
   Add node. *)
C5_ResidualAddInputs ==
    cfg.dropout_rate = 0 =>
      \A a \in NodesOfKind("Add") :
        /\ HasSuffix(NodeLayer(a).name, "-Add")
        /\ One(NodesNamed(StageOfAdd(a)))
        /\ One(NodesNamed(StageOfAdd(a) \o "-Norm"))
        /\ LET t == TheNode(StageOfAdd(a))
               n == TheNode(StageOfAdd(a) \o "-Norm")
           IN /\ NodeLayer(t).kind \in {"MultiHeadAttention", "FeedForward"}
              /\ NodeLayer(n).kind = "LayerNormalization"
              /\ nodes[n].inputs = <<t>>
              /\ Len(nodes[t].inputs) \in {1, 3}
              /\ Len(nodes[a].inputs) = 2
              /\ Range(nodes[a].inputs) = {nodes[t].inputs[1], n}
              /\ nodes[t].inputs[1] # n
              /\ \A j \in 2..Len(nodes[t].inputs) :
                   nodes[t].inputs[j] \notin Range(nodes[a].inputs)

C5_Witness ==
    /\ Done /\ cfg.dropout_rate = 0 /\ cfg.encoder_num >= 1 /\ cfg.decoder_num >= 1
    /\ NodesNamed("Decoder-1-MultiHeadQueryAttention-Add") # {}
    /\ NodesNamed("Encoder-1-FeedForward-Add") # {}

(* ------------------------------- C6 ----------------------------------- *)
(* C6: the Embedding layer's trainable flag is: with embed_trainable None,
   True exactly when the embed_weights argument is None (False for an array
   and for a list, empty or not); with embed_trainable True or False, that
   value whatever embed_weights is. *)
C6_DefaultTrainable ==
    \A e \in LayersOfKind("Embedding") :
      /\ cfg.embed_trainable = "None" /\ cfg.embed_weights = PyNone
           => layers[e].trainable = "True"
      /\ cfg.embed_trainable = "None" /\ cfg.embed_weights # PyNone
           => layers[e].trainable = "False"
      /\ cfg.embed_trainable # "None" => layers[e].trainable = cfg.embed_trainable

C6_Witness ==
    /\ LayersOfKind("Embedding") # {}
    /\ cfg.embed_trainable = "None"
    /\ cfg.embed_weights = PyArray("W")
    /\ \E e \in LayersOfKind("Embedding") : layers[e].trainable = "False"

(* ------------------------------- C7 ----------------------------------- *)
EncoderBlocks == SelectSeq(blocks, LAMBDA b : b.fn = "_get_encoder_component")
DecoderBlocks == SelectSeq(blocks, LAMBDA b : b.fn = "_get_decoder_component")

(* the invocations bs of one stack, of depth n, fed with node input and
   returning node output: names in index order, each block fed by the one
   before it, each block's result its final Add node *)
Threaded(bs, n, input, output, role) ==
    /\ Len(bs) = n
    /\ \A k \in 1..n :
         /\ bs[k].name = RoleName(role, k)
         /\ bs[k].input_layer = IF k = 1 THEN input ELSE bs[k - 1].output
         /\ One(NodesNamed(RoleName(role, k) \o "-FeedForward-Add"))
         /\ bs[k].output = TheNode(RoleName(role, k) \o "-FeedForward-Add")
    /\ output = IF n = 0 THEN input ELSE bs[n].output

(* C7: when get_encoders (get_decoders) has returned, the block function was
   invoked exactly encoder_num (decoder_num) times, named '<Role>-1' ..
   '<Role>-N' in that order, the first on the stack's input and each next one
   on the previous block's output, and the stack's result is the last block's
   output; a stack of depth 0 returns its input and has created no layer and
   no node. *)
C7_StackThreading ==
    /\ gm.encoded_layer # 0 =>
         /\ Threaded(EncoderBlocks, cfg.encoder_num, gm.encoder_embed,
                     gm.encoded_layer, "Encoder")
         /\ gm.encoder_embed = TheNode("Encoder-Embedding")
    /\ (pc = "decoder_input" /\ cfg.encoder_num = 0) =>
         /\ gm.encoded_layer = gm.encoder_embed
         /\ Len(nodes) = gm.encoder_embed
         /\ \A k \in DOMAIN layers : ~InBlock(layers[k].name)
    /\ gm.decoded_layer # 0 =>
         /\ Threaded(DecoderBlocks, cfg.decoder_num, gm.decoder_embed,
                     gm.decoded_layer, "Decoder")
         /\ gm.decoder_embed = TheNode("Decoder-Embedding")
         /\ \A k \in 1..cfg.decoder_num :
              DecoderBlocks[k].encoded_layer = gm.encoded_layer
    /\ (pc = "output" /\ cfg.decoder_num = 0) =>
         /\ gm.decoded_layer = gm.decoder_embed
         /\ Len(nodes) = gm.decoder_embed
         /\ BlockNamespaces = {EncName(k) : k \in 1..cfg.encoder_num}

C7_Witness ==
    /\ Done /\ cfg.encoder_num = 2 /\ cfg.decoder_num = 2
    /\ Len(EncoderBlocks) = 2 /\ Len(DecoderBlocks) = 2

(* the depth-0 case of C7 happens too *)
C7_WitnessEmpty == pc = "output" /\ cfg.decoder_num = 0 /\ cfg.encoder_num = 0

(* ------------------------------- C8 ----------------------------------- *)
(* the node a stack's first block (or, for an empty stack, its result) reads *)
StackEntry(bs, result) == IF Len(bs) = 0 THEN result ELSE bs[1].input_layer

(* C8: there is never more than one Embedding layer, and it is named
   'Token-Embedding'; in the finished graph it is called exactly twice, once
   on 'Encoder-Input' and once on 'Decoder-Input'; 'Encoder-Embedding'
   ('Decoder-Embedding') is an additive positional embedding whose only input
   is the embedding of the encoder (decoder) input, and it is the node the
   encoder (decoder) stack starts from. *)
C8_SharedEmbedding ==
    /\ Cardinality(LayersOfKind("Embedding")) <= 1
    /\ \A e \in LayersOfKind("Embedding") : layers[e].name = "Token-Embedding"
    /\ Done =>
         /\ One(LayersOfKind("Embedding"))
         /\ Cardinality(NodesNamed("Token-Embedding")) = 2
         /\ {nodes[k].inputs : k \in NodesNamed("Token-Embedding")}
              = {<<TheNode("Encoder-Input")>>, <<TheNode("Decoder-Input")>>}
         /\ \A r \in {"Encoder", "Decoder"} :
              /\ One(NodesNamed(r \o "-Embedding"))
              /\ LET p == TheNode(r \o "-Embedding")
                 IN /\ NodeLayer(p).kind = "TrigPosEmbedding"
                    /\ NodeLayer(p).mode = "add"
                    /\ Len(nodes[p].inputs) = 1
                    /\ nodes[p].inputs[1] \in NodesNamed("Token-Embedding")
                    /\ nodes[nodes[p].inputs[1]].inputs = <<TheNode(r \o "-Input")>>
         /\ StackEntry(EncoderBlocks, gm.encoded_layer) = TheNode("Encoder-Embedding")
         /\ StackEntry(DecoderBlocks, gm.decoded_layer) = TheNode("Decoder-Embedding")

C8_Witness ==
    /\ Done /\ cfg.encoder_num >= 1 /\ cfg.decoder_num >= 1
    /\ Cardinality(NodesNamed("Token-Embedding")) = 2

(* ------------------------------- C9 ----------------------------------- *)
(* C9: for every residual-wrapped stage (every Add node): if dropout_rate > 0
   there is exactly one node '<stage>-Dropout', its only input is the stage's
   normalization node, and it, not the normalization node, is the second
   input of the Add node; if dropout_rate <= 0 there is no layer
   '<stage>-Dropout' (and no Dropout layer at all) and the normalization node
   is the second input of the Add node. *)
C9_DropoutIffPositive ==
    /\ \A a \in NodesOfKind("Add") :
         LET stage == StageOfAdd(a)
             n == TheNode(stage \o "-Norm")
         IN /\ One(NodesNamed(stage \o "-Norm"))
            /\ Len(nodes[a].inputs) = 2
            /\ LayersNamed(stage \o "-Dropout") # {} <=> cfg.dropout_rate > 0
            /\ IF cfg.dropout_rate > 0
               THEN /\ One(NodesNamed(stage \o "-Dropout"))
                    /\ LET d == TheNode(stage \o "-Dropout")
                       IN /\ NodeLayer(d).kind = "Dropout"
                          /\ NodeLayer(d).rate = cfg.dropout_rate
                          /\ nodes[d].inputs = <<n>>
                          /\ nodes[a].inputs[2] = d
                          /\ n \notin Range(nodes[a].inputs)
               ELSE nodes[a].inputs[2] = n
    /\ cfg.dropout_rate <= 0 => LayersOfKind("Dropout") = {}
    /\ \A d \in LayersOfKind("Dropout") : HasSuffix(layers[d].name, "-Dropout")

C9_Witness ==
    /\ Done /\ cfg.dropout_rate > 0 /\ cfg.decoder_num >= 1
    /\ NodesNamed("Decoder-1-MultiHeadQueryAttention-Dropout") # {}

(* the cases without dropout happen too: rate exactly 0 and a negative rate *)
C9_WitnessZero == Done /\ cfg.dropout_rate = 0 /\ NodesOfKind("Add") # {}
C9_WitnessNegative == Done /\ cfg.dropout_rate < 0 /\ NodesOfKind("Add") # {}

(* ------------------------------ C10 ----------------------------------- *)
(* C10: in the finished graph of a configuration with decoder_num >= 1, every
   node other than 'Output' is an ancestor of the 'Output' node, both inputs
   among them, and every constructed layer has been called. *)
C10_AllReachOutput ==
    (Done /\ cfg.decoder_num >= 1) =>
      /\ One(NodesNamed("Output"))
      /\ NodeIds \ {TheNode("Output")} = Ancestors(TheNode("Output"))
      /\ TheNode("Encoder-Input") \in Ancestors(TheNode("Output"))
      /\ TheNode("Decoder-Input") \in Ancestors(TheNode("Output"))
      /\ \A l \in DOMAIN layers : \E k \in NodeIds : nodes[k].layer = l

C10_Witness == Done /\ cfg.decoder_num >= 1 /\ cfg.encoder_num = 0

(* without a decoder block the encoder side is not connected to the output *)
C10_DecoderlessDangling ==
    (Done /\ cfg.decoder_num = 0) =>
      TheNode("Encoder-Input") \notin Ancestors(TheNode("Output"))

====
